---- MODULE Spec2Model ----
(***************************************************************************)
(* A model of src/src/main.rs: the Pipe contract, the Glue combinator and  *)
(* the two example pipes (BytesToLinesPipe, StringsToNumbersPipe).         *)
(*                                                                         *)
(* Bytes are numbers 0..255.  A String is the sequence of its UTF-8 bytes. *)
(* Option<T>: None is <<>>, Some(x) is <<x>>.                              *)
(* Result<T, T>: Ok(v) is [ok |-> TRUE, val |-> v], Err(v) has ok = FALSE. *)
(***************************************************************************)
EXTENDS Integers, Sequences, FiniteSets

\* ------------------------------------------------------------------ bounds

\* Number of handle_front_input and handle_back_input calls made on the pipe
\* under test (polls are not bounded).
MaxHandles == 4

\* Number of reads the driver main makes from its input.
MaxReads == 3

\* ------------------------------------------------------ values and inputs

NL == 10

None == <<>>
Some(x) == <<x>>
Ok(v) == [ok |-> TRUE, val |-> v]
Err(v) == [ok |-> FALSE, val |-> v]

\* The byte chunks handled at the front of the line codec and of the composed
\* pipe: "1\n", "2\n", "2", "x", "\n" and the byte 0xFF, which occurs in no
\* UTF-8 text.
FrontChunks == {<<49, 10>>, <<50, 10>>, <<50>>, <<120>>, <<10>>, <<255>>}
\* The Strings handled at the front of a stand-alone StringsToNumbersPipe:
\* "1", "-1", "+1", "", "-", "x\n".
FrontStrings == {<<49>>, <<45, 49>>, <<43, 49>>, <<>>, <<45>>, <<120, 10>>}
\* The i32 values handled at the back.
BackNums == {-1, 12}
\* The messages handled at the back of a stand-alone BytesToLinesPipe.
BackMsgs == {Ok(<<49>>), Err(<<120>>), Ok(<<>>)}

\* --------------------------------------------------------- std conversions

\* String::from_utf8(message) is Ok: exact for byte strings over 0..127 and
\* 248..255 (ASCII is valid, 0xF8..0xFF occur in no UTF-8 encoding).
Utf8Valid(bytes) == \A i \in 1..Len(bytes) : bytes[i] < 128

IsDigit(c) == c \in 48..57

I32Max == 2147483647
I32Min == -I32Max - 1

\* The digit loop of i32::from_str_radix: checked_mul(10) then checked_add(d)
\* for a positive number, checked_sub(d) for a negative one; an overflow is
\* an error (None).
RECURSIVE ParseDigits(_, _, _)
ParseDigits(s, acc, negative) ==
    IF s = <<>> THEN Some(acc)
    ELSE LET d == s[1] - 48 IN
         IF negative
         THEN IF acc = I32Min \/ -acc > (I32Max - (IF d = 0 THEN 0 ELSE d - 1)) \div 10
              THEN None
              ELSE ParseDigits(Tail(s), 10 * acc - d, negative)
         ELSE IF acc > (I32Max - d) \div 10
              THEN None
              ELSE ParseDigits(Tail(s), 10 * acc + d, negative)

\* message.parse::<i32>(): an optional sign, then one or more decimal digits,
\* the value within i32; anything else is an error (None here).
ParseI32(s) ==
    LET signed == s # <<>> /\ s[1] \in {43, 45}
        digits == IF signed THEN Tail(s) ELSE s
    IN IF digits = <<>> \/ \E i \in 1..Len(digits) : ~IsDigit(digits[i])
       THEN None
       ELSE ParseDigits(digits, 0, signed /\ s[1] = 45)

RECURSIVE NatToString(_)
NatToString(n) ==
    IF n < 10 THEN <<48 + n>> ELSE Append(NatToString(n \div 10), 48 + (n % 10))

\* number.to_string()
to_string(n) == IF n < 0 THEN <<45>> \o NatToString(-n) ELSE NatToString(n)

\* One character under {:?}: '"', '\\', '\n', '\r', '\t' are escaped.
EscapeDebug(c) ==
    CASE c = 34 -> <<92, 34>>
      [] c = 92 -> <<92, 92>>
      [] c = 10 -> <<92, 110>>
      [] c = 13 -> <<92, 114>>
      [] c = 9  -> <<92, 116>>
      [] OTHER  -> <<c>>

RECURSIVE DebugBody(_)
DebugBody(s) == IF s = <<>> THEN <<>> ELSE EscapeDebug(s[1]) \o DebugBody(Tail(s))

\* "Invalid number: "
InvalidNumberPrefix ==
    <<73, 110, 118, 97, 108, 105, 100, 32, 110, 117, 109, 98, 101, 114, 58, 32>>

\* format!("Invalid number: {:?}", message)
FormatInvalidNumber(message) ==
    InvalidNumberPrefix \o <<34>> \o DebugBody(message) \o <<34>>

\* ------------------------------------------------------- BytesToLinesPipe

BytesToLinesPipe_default == [front_input |-> <<>>, back_input |-> <<>>]

\* A variant of handle_front_input that replaces the buffer (no extend).
BytesToLinesPipe_handle_front_input_replacing(p, bytes) ==
    [p EXCEPT !.front_input = bytes]

BytesToLinesPipe_handle_front_input(p, bytes) ==
    [p EXCEPT !.front_input = @ \o bytes]

BytesToLinesPipe_handle_back_input(p, message) ==
    [p EXCEPT !.back_input = Append(@, message)]

\* self.front_input.iter().position(|&x| x == b'\n'): 0 when there is none,
\* else the 1-based index of the first separator.
Position(bytes) ==
    IF \E i \in 1..Len(bytes) : bytes[i] = NL
    THEN CHOOSE i \in 1..Len(bytes) :
            bytes[i] = NL /\ \A j \in 1..(i - 1) : bytes[j] # NL
    ELSE 0

\* The result of a poll: the pipe after the call, the returned Option, and
\* whether the call panicked instead of returning.
\* A variant of poll_back_output that forgets the partial line when it finds
\* no separator.
BytesToLinesPipe_poll_back_output_clearing(p) ==
    LET pos == Position(p.front_input) IN
    IF pos # 0
    THEN LET message == SubSeq(p.front_input, 1, pos - 1)
             rest    == SubSeq(p.front_input, pos + 1, Len(p.front_input))
             q       == [p EXCEPT !.front_input = rest]
         IN IF Utf8Valid(message)
            THEN [pipe |-> q, ret |-> Some(message), panic |-> FALSE]
            ELSE [pipe |-> q, ret |-> None, panic |-> TRUE]
    ELSE [pipe |-> [p EXCEPT !.front_input = <<>>], ret |-> None, panic |-> FALSE]

BytesToLinesPipe_poll_back_output(p) ==
    LET pos == Position(p.front_input) IN
    IF pos # 0
    THEN LET message == SubSeq(p.front_input, 1, pos - 1)
             rest    == SubSeq(p.front_input, pos + 1, Len(p.front_input))
             q       == [p EXCEPT !.front_input = rest]
         IN IF Utf8Valid(message)
            THEN [pipe |-> q, ret |-> Some(message), panic |-> FALSE]
            ELSE [pipe |-> q, ret |-> None, panic |-> TRUE]
    ELSE [pipe |-> p, ret |-> None, panic |-> FALSE]

\* A variant of into_bytes that appends no separator.
into_bytes_bare(message) == message

\* message.into_bytes() followed by push(b'\n')
into_bytes(message) == Append(message, NL)

\* A variant of poll_front_output that encodes only Ok messages (map without
\* map_err).
BytesToLinesPipe_poll_front_output_ok_only(p) ==
    IF p.back_input = <<>>
    THEN [pipe |-> p, ret |-> None, panic |-> FALSE]
    ELSE LET message == Head(p.back_input) IN
         [pipe  |-> [p EXCEPT !.back_input = Tail(@)],
          ret   |-> Some([ok  |-> message.ok,
                          val |-> IF message.ok THEN Append(message.val, NL)
                                  ELSE message.val]),
          panic |-> FALSE]

BytesToLinesPipe_poll_front_output(p) ==
    IF p.back_input = <<>>
    THEN [pipe |-> p, ret |-> None, panic |-> FALSE]
    ELSE LET message == Head(p.back_input) IN
         [pipe  |-> [p EXCEPT !.back_input = Tail(@)],
          ret   |-> Some([ok |-> message.ok, val |-> into_bytes(message.val)]),
          panic |-> FALSE]

\* --------------------------------------------------- StringsToNumbersPipe

StringsToNumbersPipe_default == [back_output |-> <<>>, front_output |-> <<>>]

\* A variant of handle_front_input that, for a string that is no number,
\* also queues the default number 0 (parse().unwrap_or_default()).
StringsToNumbersPipe_handle_front_input_default(p, message) ==
    LET n == ParseI32(message) IN
    IF n # None
    THEN [p EXCEPT !.back_output = Append(@, n[1])]
    ELSE [p EXCEPT !.back_output = Append(@, 0),
                   !.front_output = Append(@, Err(FormatInvalidNumber(message)))]

StringsToNumbersPipe_handle_front_input(p, message) ==
    LET n == ParseI32(message) IN
    IF n # None
    THEN [p EXCEPT !.back_output = Append(@, n[1])]
    ELSE [p EXCEPT !.front_output = Append(@, Err(FormatInvalidNumber(message)))]

StringsToNumbersPipe_handle_back_input(p, number) ==
    [p EXCEPT !.front_output = Append(@, Ok(to_string(number)))]

\* A variant of poll_back_output that pops the newest number (pop_back).
StringsToNumbersPipe_poll_back_output_lifo(p) ==
    IF p.back_output = <<>>
    THEN [pipe |-> p, ret |-> None, panic |-> FALSE]
    ELSE [pipe  |-> [p EXCEPT !.back_output = SubSeq(@, 1, Len(@) - 1)],
          ret   |-> Some(p.back_output[Len(p.back_output)]),
          panic |-> FALSE]

StringsToNumbersPipe_poll_back_output(p) ==
    IF p.back_output = <<>>
    THEN [pipe |-> p, ret |-> None, panic |-> FALSE]
    ELSE [pipe  |-> [p EXCEPT !.back_output = Tail(@)],
          ret   |-> Some(Head(p.back_output)),
          panic |-> FALSE]

StringsToNumbersPipe_poll_front_output(p) ==
    IF p.front_output = <<>>
    THEN [pipe |-> p, ret |-> None, panic |-> FALSE]
    ELSE [pipe  |-> [p EXCEPT !.front_output = Tail(@)],
          ret   |-> Some(Head(p.front_output)),
          panic |-> FALSE]

\* ------------------------------------------------------------------- Glue
\* Glue<BytesToLinesPipe, StringsToNumbersPipe>: g.a and g.b.

Glue_new(pa, pb) == [a |-> pa, b |-> pb]

Glue_handle_front_input(g, message) ==
    [g EXCEPT !.a = BytesToLinesPipe_handle_front_input(@, message)]

\* A variant of handle_back_input that moves b's messages on to a at once.
Glue_handle_back_input_eager(g, message) ==
    LET h == [g EXCEPT !.b = StringsToNumbersPipe_handle_back_input(@, message)]
    IN [a |-> [h.a EXCEPT !.back_input = @ \o h.b.front_output],
        b |-> [h.b EXCEPT !.front_output = <<>>]]

Glue_handle_back_input(g, message) ==
    [g EXCEPT !.b = StringsToNumbersPipe_handle_back_input(@, message)]

\* A variant of the first loop that runs at most once (if let for while let).
Glue_drain_a_to_b_once(g) ==
    LET r == BytesToLinesPipe_poll_back_output(g.a) IN
    IF r.panic THEN [glue |-> [g EXCEPT !.a = r.pipe], panic |-> TRUE, iters |-> 0]
    ELSE IF r.ret = None THEN [glue |-> [g EXCEPT !.a = r.pipe], panic |-> FALSE, iters |-> 0]
    ELSE [glue  |-> [a |-> r.pipe,
                     b |-> StringsToNumbersPipe_handle_front_input(g.b, r.ret[1])],
          panic |-> FALSE,
          iters |-> 1]

\* while let Some(message) = self.a.poll_back_output()
\*     { self.b.handle_front_input(message); }
\* The result holds the Glue the loop leaves, whether a call in it panicked,
\* and iters, the number of times the loop body ran.
RECURSIVE Glue_drain_a_to_b(_)
Glue_drain_a_to_b(g) ==
    LET r == BytesToLinesPipe_poll_back_output(g.a) IN
    IF r.panic
    THEN [glue |-> [g EXCEPT !.a = r.pipe], panic |-> TRUE, iters |-> 0]
    ELSE IF r.ret = None
    THEN [glue |-> [g EXCEPT !.a = r.pipe], panic |-> FALSE, iters |-> 0]
    ELSE LET d == Glue_drain_a_to_b(
                      [a |-> r.pipe,
                       b |-> StringsToNumbersPipe_handle_front_input(g.b, r.ret[1])])
         IN [d EXCEPT !.iters = @ + 1]

Glue_poll_back_output(g) ==
    LET d == Glue_drain_a_to_b(g) IN
    IF d.panic THEN [pipe |-> d.glue, ret |-> None, panic |-> TRUE]
    ELSE LET r == StringsToNumbersPipe_poll_back_output(d.glue.b) IN
         [pipe |-> [d.glue EXCEPT !.b = r.pipe], ret |-> r.ret, panic |-> r.panic]

\* A variant of the second loop that runs at most once (if let for while let).
Glue_drain_b_to_a_once(g) ==
    LET r == StringsToNumbersPipe_poll_front_output(g.b) IN
    IF r.panic THEN [glue |-> [g EXCEPT !.b = r.pipe], panic |-> TRUE, iters |-> 0]
    ELSE IF r.ret = None THEN [glue |-> [g EXCEPT !.b = r.pipe], panic |-> FALSE, iters |-> 0]
    ELSE [glue  |-> [a |-> BytesToLinesPipe_handle_back_input(g.a, r.ret[1]),
                     b |-> r.pipe],
          panic |-> FALSE,
          iters |-> 1]

\* while let Some(message) = self.b.poll_front_output()
\*     { self.a.handle_back_input(message); }
RECURSIVE Glue_drain_b_to_a(_)
Glue_drain_b_to_a(g) ==
    LET r == StringsToNumbersPipe_poll_front_output(g.b) IN
    IF r.panic
    THEN [glue |-> [g EXCEPT !.b = r.pipe], panic |-> TRUE, iters |-> 0]
    ELSE IF r.ret = None
    THEN [glue |-> [g EXCEPT !.b = r.pipe], panic |-> FALSE, iters |-> 0]
    ELSE LET d == Glue_drain_b_to_a(
                      [a |-> BytesToLinesPipe_handle_back_input(g.a, r.ret[1]),
                       b |-> r.pipe])
         IN [d EXCEPT !.iters = @ + 1]

\* A variant of poll_front_output that polls a without draining b first.
Glue_poll_front_output_undrained(g) ==
    LET r == BytesToLinesPipe_poll_front_output(g.a) IN
    [pipe |-> [g EXCEPT !.a = r.pipe], ret |-> r.ret, panic |-> r.panic]

\* A variant of poll_front_output that hands out b's message itself instead
\* of feeding it to a.
Glue_poll_front_output_leaking(g) ==
    LET r == StringsToNumbersPipe_poll_front_output(g.b) IN
    [pipe |-> [g EXCEPT !.b = r.pipe], ret |-> r.ret, panic |-> r.panic]

Glue_poll_front_output(g) ==
    LET d == Glue_drain_b_to_a(g) IN
    IF d.panic THEN [pipe |-> d.glue, ret |-> None, panic |-> TRUE]
    ELSE LET r == BytesToLinesPipe_poll_front_output(d.glue.a) IN
         [pipe |-> [d.glue EXCEPT !.a = r.pipe], ret |-> r.ret, panic |-> r.panic]

\* ------------------------------------------------------------------ state

VARIABLES
    a,          \* the BytesToLinesPipe (Glue.a, or the stand-alone pipe)
    b,          \* the StringsToNumbersPipe (Glue.b, or the stand-alone pipe)
    panicked,   \* a call unwound with a panic; nothing is called afterwards
    lastOp,     \* the contract operation called last
    lastRes,    \* the Option the last poll returned
    handles,    \* the number of handle_* calls made with an input chosen
                \* from outside (in main: the number of reads)
    frontLog,   \* everything handled at the front, in order
    backLog,    \* everything handled at the back, in order
    frontOut,   \* the Some values poll_front_output returned, in order
    backOut,    \* the Some values poll_back_output returned, in order
    noneB,      \* poll_back_output returned None since the last handle_* call
    noneF,      \* poll_front_output returned None since the last handle_* call
    noneBF,     \* ... and it did so after poll_back_output had returned None
    phase       \* progress of the scenario "handle_front_input, then
                \* handle_back_input, then poll_front_output, with calls of
                \* poll_back_output anywhere in between" on a fresh Glue:
                \* fresh, fed, fedPolled (poll_back_output was called before
                \* handle_back_input), answered, answeredLate, polled,
                \* polledLate; off when the calls made are not that scenario

vars == <<a, b, panicked, lastOp, lastRes, handles, frontLog, backLog, frontOut,
          backOut, noneB, noneF, noneBF, phase>>

Init ==
    /\ a = BytesToLinesPipe_default
    /\ b = StringsToNumbersPipe_default
    /\ panicked = FALSE
    /\ lastOp = "new"
    /\ lastRes = None
    /\ handles = 0
    /\ frontLog = <<>>
    /\ backLog = <<>>
    /\ frontOut = <<>>
    /\ backOut = <<>>
    /\ noneB = FALSE
    /\ noneF = FALSE
    /\ noneBF = FALSE
    /\ phase = "fresh"

\* ------------------------------------------------- the composed pipe (Glue)

GlueHandleFrontInput ==
    /\ ~panicked
    /\ handles < MaxHandles
    /\ \E bytes \in FrontChunks :
          /\ LET g == Glue_handle_front_input(Glue_new(a, b), bytes) IN
                a' = g.a /\ b' = g.b
          /\ frontLog' = frontLog \o bytes
    /\ lastOp' = "handle_front_input"
    /\ lastRes' = None
    /\ handles' = handles + 1
    /\ noneB' = FALSE /\ noneF' = FALSE /\ noneBF' = FALSE
    /\ phase' = IF phase = "fresh" THEN "fed" ELSE "off"
    /\ UNCHANGED <<panicked, backLog, frontOut, backOut>>

GlueHandleBackInput ==
    /\ ~panicked
    /\ handles < MaxHandles
    /\ \E n \in BackNums :
          /\ LET g == Glue_handle_back_input(Glue_new(a, b), n) IN
                a' = g.a /\ b' = g.b
          /\ backLog' = Append(backLog, n)
    /\ lastOp' = "handle_back_input"
    /\ lastRes' = None
    /\ handles' = handles + 1
    /\ noneB' = FALSE /\ noneF' = FALSE /\ noneBF' = FALSE
    /\ phase' = CASE phase = "fed" -> "answered"
                  [] phase = "fedPolled" -> "answeredLate"
                  [] OTHER -> "off"
    /\ UNCHANGED <<panicked, frontLog, frontOut, backOut>>

GluePollBackOutput ==
    /\ ~panicked
    /\ LET r == Glue_poll_back_output(Glue_new(a, b)) IN
          /\ a' = r.pipe.a
          /\ b' = r.pipe.b
          /\ panicked' = r.panic
          /\ lastRes' = r.ret
          /\ backOut' = backOut \o r.ret
          /\ noneB' = (~r.panic /\ r.ret = None)
    /\ lastOp' = "poll_back_output"
    /\ phase' = CASE phase = "fed" -> "fedPolled"
                  [] phase \in {"polled", "polledLate"} -> "off"
                  [] OTHER -> phase
    /\ UNCHANGED <<handles, frontLog, backLog, frontOut, noneF, noneBF>>

GluePollFrontOutput ==
    /\ ~panicked
    /\ LET r == Glue_poll_front_output(Glue_new(a, b)) IN
          /\ a' = r.pipe.a
          /\ b' = r.pipe.b
          /\ panicked' = r.panic
          /\ lastRes' = r.ret
          /\ frontOut' = frontOut \o r.ret
          /\ noneF' = (~r.panic /\ r.ret = None)
          /\ noneBF' = (~r.panic /\ r.ret = None /\ noneB)
    /\ lastOp' = "poll_front_output"
    /\ phase' = CASE phase = "answered" -> "polled"
                  [] phase = "answeredLate" -> "polledLate"
                  [] phase = "fresh" -> phase
                  [] OTHER -> "off"
    /\ UNCHANGED <<handles, frontLog, backLog, backOut, noneB>>

Next ==
    \/ GlueHandleFrontInput
    \/ GlueHandleBackInput
    \/ GluePollBackOutput
    \/ GluePollFrontOutput

Spec == Init /\ [][Next]_vars

\* ------------------------------------------- a stand-alone BytesToLinesPipe
\* The pipe is a; frontLog holds bytes, backLog the handled Results, backOut
\* the polled lines, frontOut the polled Results.

LinesHandleFrontInput ==
    /\ ~panicked
    /\ handles < MaxHandles
    /\ \E bytes \in FrontChunks :
          /\ a' = BytesToLinesPipe_handle_front_input(a, bytes)
          /\ frontLog' = frontLog \o bytes
    /\ lastOp' = "handle_front_input"
    /\ lastRes' = None
    /\ handles' = handles + 1
    /\ UNCHANGED <<b, panicked, backLog, frontOut, backOut, noneB, noneF, noneBF, phase>>

LinesHandleBackInput ==
    /\ ~panicked
    /\ handles < MaxHandles
    /\ \E message \in BackMsgs :
          /\ a' = BytesToLinesPipe_handle_back_input(a, message)
          /\ backLog' = Append(backLog, message)
    /\ lastOp' = "handle_back_input"
    /\ lastRes' = None
    /\ handles' = handles + 1
    /\ UNCHANGED <<b, panicked, frontLog, frontOut, backOut, noneB, noneF, noneBF, phase>>

LinesPollBackOutput ==
    /\ ~panicked
    /\ LET r == BytesToLinesPipe_poll_back_output(a) IN
          /\ a' = r.pipe
          /\ panicked' = r.panic
          /\ lastRes' = r.ret
          /\ backOut' = backOut \o r.ret
    /\ lastOp' = "poll_back_output"
    /\ UNCHANGED <<handles, b, frontLog, backLog, frontOut, noneB, noneF, noneBF, phase>>

LinesPollFrontOutput ==
    /\ ~panicked
    /\ LET r == BytesToLinesPipe_poll_front_output(a) IN
          /\ a' = r.pipe
          /\ panicked' = r.panic
          /\ lastRes' = r.ret
          /\ frontOut' = frontOut \o r.ret
    /\ lastOp' = "poll_front_output"
    /\ UNCHANGED <<handles, b, frontLog, backLog, backOut, noneB, noneF, noneBF, phase>>

NextLines ==
    \/ LinesHandleFrontInput
    \/ LinesHandleBackInput
    \/ LinesPollBackOutput
    \/ LinesPollFrontOutput

SpecLines == Init /\ [][NextLines]_vars

\* --------------------------------------- a stand-alone StringsToNumbersPipe
\* The pipe is b; frontLog holds the handled Strings, backLog the handled
\* numbers, backOut the polled numbers, frontOut the polled Results.

NumbersHandleFrontInput ==
    /\ ~panicked
    /\ handles < MaxHandles
    /\ \E message \in FrontStrings :
          /\ b' = StringsToNumbersPipe_handle_front_input(b, message)
          /\ frontLog' = Append(frontLog, message)
    /\ lastOp' = "handle_front_input"
    /\ lastRes' = None
    /\ handles' = handles + 1
    /\ UNCHANGED <<a, panicked, backLog, frontOut, backOut, noneB, noneF, noneBF, phase>>

NumbersHandleBackInput ==
    /\ ~panicked
    /\ handles < MaxHandles
    /\ \E number \in BackNums :
          /\ b' = StringsToNumbersPipe_handle_back_input(b, number)
          /\ backLog' = Append(backLog, number)
    /\ lastOp' = "handle_back_input"
    /\ lastRes' = None
    /\ handles' = handles + 1
    /\ UNCHANGED <<a, panicked, frontLog, frontOut, backOut, noneB, noneF, noneBF, phase>>

NumbersPollBackOutput ==
    /\ ~panicked
    /\ LET r == StringsToNumbersPipe_poll_back_output(b) IN
          /\ b' = r.pipe
          /\ panicked' = r.panic
          /\ lastRes' = r.ret
          /\ backOut' = backOut \o r.ret
    /\ lastOp' = "poll_back_output"
    /\ UNCHANGED <<handles, a, frontLog, backLog, frontOut, noneB, noneF, noneBF, phase>>

NumbersPollFrontOutput ==
    /\ ~panicked
    /\ LET r == StringsToNumbersPipe_poll_front_output(b) IN
          /\ b' = r.pipe
          /\ panicked' = r.panic
          /\ lastRes' = r.ret
          /\ frontOut' = frontOut \o r.ret
    /\ lastOp' = "poll_front_output"
    /\ UNCHANGED <<handles, a, frontLog, backLog, backOut, noneB, noneF, noneBF, phase>>

NextNumbers ==
    \/ NumbersHandleFrontInput
    \/ NumbersHandleBackInput
    \/ NumbersPollBackOutput
    \/ NumbersPollFrontOutput

SpecNumbers == Init /\ [][NextNumbers]_vars

\* ------------------------------------------------------------ main's loop
\* The Glue is <<a, b>>. frontLog holds the bytes read from stdin, frontOut
\* the messages written (to stdout when Ok, to stderr when Err) in the order
\* of the writes, backOut the numbers polled, backLog the numbers handed
\* back. The position in the loop follows from the call made last: a poll
\* that returned None falls through to the next statement, everything else
\* continues at the top. A failing read or write ends the driver (unwrap);
\* the behaviour then stops where it is.

\* What a read can return: one of the chunks above, two lines at once, or
\* nothing (end of input).
ReadChunks == FrontChunks \cup {<<49, 10, 120, 10>>, <<>>}

\* let n = 2 * n; on i32 overflow the build with overflow checks panics, the
\* build without them wraps.
TwoTimes(n) ==
    IF n > I32Max \div 2
    THEN {[panic |-> TRUE, val |-> n],
          [panic |-> FALSE, val |-> 2 * (n - I32Max - 1)]}
    ELSE IF n < -(I32Max \div 2) - 1
    THEN {[panic |-> TRUE, val |-> n],
          [panic |-> FALSE, val |-> 2 * (n + I32Max + 1)]}
    ELSE {[panic |-> FALSE, val |-> 2 * n]}

AtPollBackOutput ==
    ~panicked /\ ~(lastOp \in {"poll_back_output", "poll_front_output"} /\ lastRes = None)
AtPollFrontOutput == ~panicked /\ lastOp = "poll_back_output" /\ lastRes = None
AtRead == ~panicked /\ lastOp = "poll_front_output" /\ lastRes = None

\* if let Some(n) = pipe.poll_back_output()
\*     { let n = 2 * n; pipe.handle_back_input(n); continue; }
MainPollBackOutput ==
    /\ AtPollBackOutput
    /\ LET r == Glue_poll_back_output(Glue_new(a, b)) IN
          IF r.panic \/ r.ret = None
          THEN /\ a' = r.pipe.a
               /\ b' = r.pipe.b
               /\ panicked' = r.panic
               /\ lastOp' = "poll_back_output"
               /\ lastRes' = r.ret
               /\ noneB' = ~r.panic
               /\ UNCHANGED <<backLog, backOut, noneF, noneBF>>
          ELSE \E m \in TwoTimes(r.ret[1]) :
                  /\ backOut' = backOut \o r.ret
                  /\ IF m.panic
                     THEN /\ a' = r.pipe.a
                          /\ b' = r.pipe.b
                          /\ panicked' = TRUE
                          /\ lastOp' = "poll_back_output"
                          /\ lastRes' = r.ret
                          /\ noneB' = FALSE
                          /\ UNCHANGED <<backLog, noneF, noneBF>>
                     ELSE /\ LET g == Glue_handle_back_input(r.pipe, m.val) IN
                                a' = g.a /\ b' = g.b
                          /\ panicked' = FALSE
                          /\ lastOp' = "handle_back_input"
                          /\ lastRes' = None
                          /\ backLog' = Append(backLog, m.val)
                          /\ noneB' = FALSE /\ noneF' = FALSE /\ noneBF' = FALSE
    /\ UNCHANGED <<handles, frontLog, frontOut, phase>>

\* match pipe.poll_front_output() { Some(Ok(bytes)) => { stdout; continue }
\*     Some(Err(bytes)) => { stderr; continue }  None => () }
MainPollFrontOutput ==
    /\ AtPollFrontOutput
    /\ LET r == Glue_poll_front_output(Glue_new(a, b)) IN
          /\ a' = r.pipe.a
          /\ b' = r.pipe.b
          /\ panicked' = r.panic
          /\ lastRes' = r.ret
          /\ frontOut' = frontOut \o r.ret
          /\ noneF' = (~r.panic /\ r.ret = None)
          /\ noneBF' = (~r.panic /\ r.ret = None /\ noneB)
    /\ lastOp' = "poll_front_output"
    /\ UNCHANGED <<handles, frontLog, backLog, backOut, noneB, phase>>

\* let n = stdin.read(buf).unwrap(); pipe.handle_front_input(buf[..n].to_vec());
MainRead ==
    /\ AtRead
    /\ handles < MaxReads
    /\ \E bytes \in ReadChunks :
          /\ LET g == Glue_handle_front_input(Glue_new(a, b), bytes) IN
                a' = g.a /\ b' = g.b
          /\ frontLog' = frontLog \o bytes
    /\ lastOp' = "handle_front_input"
    /\ lastRes' = None
    /\ handles' = handles + 1
    /\ noneB' = FALSE /\ noneF' = FALSE /\ noneBF' = FALSE
    /\ UNCHANGED <<panicked, backLog, frontOut, backOut, phase>>

NextMain ==
    \/ MainPollBackOutput
    \/ MainPollFrontOutput
    \/ MainRead

SpecMain == Init /\ [][NextMain]_vars

\* ------------------------------------------------- vocabulary of the claims

Polls == {"poll_back_output", "poll_front_output"}

IsPrefix(s, t) == Len(s) <= Len(t) /\ SubSeq(t, 1, Len(s)) = s

\* The byte strings that precede each separator of a byte stream, in order.
RECURSIVE CompleteLines(_)
CompleteLines(bytes) ==
    IF \A i \in 1..Len(bytes) : bytes[i] # NL THEN <<>>
    ELSE LET i == CHOOSE k \in 1..Len(bytes) :
                     bytes[k] = NL /\ \A j \in 1..(k - 1) : bytes[j] # NL
         IN <<SubSeq(bytes, 1, i - 1)>> \o CompleteLines(SubSeq(bytes, i + 1, Len(bytes)))

\* A line of text that is an i32 in decimal.
IsNumeric(line) == Utf8Valid(line) /\ ParseI32(line) # None

\* The integers of the numeric lines of a sequence of lines, in order.
RECURSIVE NumbersOf(_)
NumbersOf(lines) ==
    IF lines = <<>> THEN <<>>
    ELSE (IF IsNumeric(Head(lines)) THEN ParseI32(Head(lines)) ELSE <<>>)
         \o NumbersOf(Tail(lines))

\* The Ok messages of a sequence of Results, in order.
RECURSIVE OkOnly(_)
OkOnly(rs) ==
    IF rs = <<>> THEN <<>>
    ELSE (IF Head(rs).ok THEN <<Head(rs)>> ELSE <<>>) \o OkOnly(Tail(rs))

\* What the front boundary returns for the number n handled at the back.
EncodedOk(n) == Ok(to_string(n) \o <<NL>>)

\* Both polls of the composed pipe would return None now.
NothingReady ==
    LET g == Glue_new(a, b)
        pb == Glue_poll_back_output(g)
        pf == Glue_poll_front_output(g)
    IN /\ ~pb.panic /\ pb.ret = None
       /\ ~pf.panic /\ pf.ret = None

\* a has no message ready for b / b has no message ready for a.
AHasNothingForB ==
    LET r == BytesToLinesPipe_poll_back_output(a) IN ~r.panic /\ r.ret = None
BHasNothingForA ==
    StringsToNumbersPipe_poll_front_output(b).ret = None

ReturnedNone(op) == lastOp = op /\ lastRes = None /\ ~panicked

\* ------------------------------------------------------------------ claims

\* C1 as stated: once poll_back_output and poll_front_output have both
\* returned None since the last handle_* call, in whatever order, every
\* further poll returns None.
C1_QuiescentAfterBothNone == (noneB /\ noneF) => NothingReady

\* The messages the composed pipe holds: complete lines in a, numbers and
\* answers queued in b, answers queued in a.
PendingMessages ==
    Len(CompleteLines(a.front_input)) + Len(b.back_output)
        + Len(b.front_output) + Len(a.back_input)

\* C1, amended: once poll_back_output has returned None and, after it,
\* poll_front_output has returned None (no handle_* call in between), every
\* further poll returns None; and polling gets there after finitely many
\* polls that return a message, because a poll that returns a message
\* removes exactly one of the finitely many pending messages and a poll that
\* returns None removes none.
C1_Quiescence ==
    /\ [](noneBF => NothingReady)
    /\ [][(lastOp' \in Polls /\ ~panicked')
             => PendingMessages' = PendingMessages - Len(lastRes')]_vars

\* C1 witness: quiescence reached after both boundaries delivered something.
C1_Witness == noneBF /\ backOut # <<>> /\ frontOut # <<>> /\ lastOp = "poll_back_output"

\* C2 as stated: when either composed poll returns None, a has nothing ready
\* for b and b has nothing ready for a.
C2_NoneMeansNothingInternal ==
    (\E op \in Polls : ReturnedNone(op)) => (AHasNothingForB /\ BHasNothingForA)

\* C2, amended: when poll_back_output returns None, a has nothing ready for
\* b; when poll_front_output returns None, b has nothing ready for a.
C2_NoneMeansDrainedDirection ==
    /\ ReturnedNone("poll_back_output") => AHasNothingForB
    /\ ReturnedNone("poll_front_output") => BHasNothingForA

\* C2 witness: poll_back_output returned None after moving a line to b, whose
\* answer is now waiting in b's front output.
C2_Witness ==
    /\ ReturnedNone("poll_back_output")
    /\ frontLog # <<>>
    /\ b.front_output # <<>>

\* C4: the integers poll_back_output returns are, in order, a prefix of the
\* integers of the numeric lines handled at the front; the Ok messages
\* poll_front_output returns are, in order, a prefix of the encodings of the
\* integers handled at the back.
C4_OrderPreserved ==
    /\ IsPrefix(backOut, NumbersOf(CompleteLines(frontLog)))
    /\ IsPrefix(OkOnly(frontOut), [i \in 1..Len(backLog) |-> EncodedOk(backLog[i])])

\* C4 witness: two different integers came out of each boundary.
C4_Witness ==
    /\ Len(backOut) = 2 /\ backOut[1] # backOut[2]
    /\ Len(OkOnly(frontOut)) = 2 /\ OkOnly(frontOut)[1] # OkOnly(frontOut)[2]

\* C5 as stated: on a fresh Glue, after handle_front_input(bytes) and then
\* handle_back_input(n), the next poll_front_output returns Ok(n in decimal,
\* then '\n'), wherever poll_back_output was called in between.
C5_BackToFront ==
    phase \in {"polled", "polledLate"} => lastRes = Some(EncodedOk(backLog[1]))

\* The first line of a sequence of lines that is no integer, as an Option.
RECURSIVE FirstNonNumeric(_)
FirstNonNumeric(lines) ==
    IF lines = <<>> THEN None
    ELSE IF IsNumeric(Head(lines)) THEN FirstNonNumeric(Tail(lines))
    ELSE Some(Head(lines))

\* C5, amended: the next poll_front_output returns Ok(n in decimal, then
\* '\n') when poll_back_output was called only after handle_back_input, or
\* when every complete line of the bytes is an integer; when poll_back_output
\* was called before handle_back_input and the bytes hold a complete line
\* that is no integer, it returns the Err of the first such line.
C5_BackToFrontAmended ==
    /\ phase = "polled" => lastRes = Some(EncodedOk(backLog[1]))
    /\ phase = "polledLate" =>
          LET bad == FirstNonNumeric(CompleteLines(frontLog)) IN
          IF bad = None THEN lastRes = Some(EncodedOk(backLog[1]))
          ELSE lastRes =
                 Some(Err(InvalidNumberPrefix \o <<34>> \o bad[1] \o <<34, NL>>))

\* C5 witness: the scenario ran with a poll_back_output between the two
\* handle calls (it returned the parsed number) and the answer came out.
C5_Witness ==
    /\ phase = "polledLate"
    /\ backOut # <<>>
    /\ lastRes = Some(EncodedOk(backLog[1]))

\* C6: a poll_back_output of the line codec whose buffer holds a separator
\* returns the bytes before the first separator and removes them and that
\* separator; with no separator buffered it returns None and keeps the
\* buffer.
C6_LineFraming ==
    [][lastOp' = "poll_back_output" =>
          IF \E i \in 1..Len(a.front_input) : a.front_input[i] = NL
          THEN /\ ~panicked'
               /\ lastRes' = Some(Head(CompleteLines(a.front_input)))
               /\ a.front_input = lastRes'[1] \o <<NL>> \o a'.front_input
               /\ a'.back_input = a.back_input
          ELSE lastRes' = None /\ a' = a /\ ~panicked']_vars

t_contains(t, s) ==
    \E k \in 0..(Len(t) - Len(s)) : SubSeq(t, k + 1, k + Len(s)) = s

\* The message handled by the handle_front_input step being taken.
HandledString == frontLog'[Len(frontLog')]

\* The step queues exactly the number n at b's back and nothing at its front.
QueuesNumber(n) ==
    /\ b'.back_output = Append(b.back_output, n)
    /\ b'.front_output = b.front_output

\* The step queues exactly one Err at b's front and nothing at its back.
QueuesErr ==
    /\ b'.back_output = b.back_output
    /\ Len(b'.front_output) = Len(b.front_output) + 1
    /\ SubSeq(b'.front_output, 1, Len(b.front_output)) = b.front_output
    /\ ~b'.front_output[Len(b'.front_output)].ok

\* C7 as stated: a string handled at the number codec's front that is an
\* integer queues that integer at the back and nothing at the front; any
\* other string queues nothing at the back and one Err containing the
\* string at the front.
C7_Routing ==
    [][lastOp' = "handle_front_input" =>
          IF ParseI32(HandledString) # None
          THEN QueuesNumber(ParseI32(HandledString)[1])
          ELSE /\ QueuesErr
               /\ t_contains(b'.front_output[Len(b'.front_output)].val,
                              HandledString)]_vars

\* C7, amended: as C7, but the Err holds the string as {:?} prints it: in
\* double quotes, with '"', '\\', '\n', '\r' and '\t' escaped. It contains
\* the string itself when the string has none of these characters.
C7_RoutingEscaped ==
    [][lastOp' = "handle_front_input" =>
          IF ParseI32(HandledString) # None
          THEN QueuesNumber(ParseI32(HandledString)[1])
          ELSE /\ QueuesErr
               /\ LET text == b'.front_output[Len(b'.front_output)].val
                      plain == \A i \in 1..Len(HandledString) :
                                  HandledString[i] \notin {34, 92, 10, 13, 9}
                  IN /\ t_contains(text, <<34>> \o DebugBody(HandledString) \o <<34>>)
                     /\ plain => t_contains(text, HandledString)]_vars

\* C7 witness: a number and a string with a line break were handled; the
\* number is queued at the back, the Err at the front.
C7_Witness ==
    /\ lastOp = "handle_front_input"
    /\ Len(frontLog) = 2
    /\ frontLog[1] = <<45, 49>>
    /\ frontLog[2] = <<120, 10>>
    /\ b.back_output = <<-1>>
    /\ Len(b.front_output) = 1

\* What the front boundary of the line codec returns for a handled message.
EncodedLine(message) == [ok |-> message.ok, val |-> message.val \o <<NL>>]

\* C8: each poll_front_output of the line codec returns the oldest handled
\* message not yet returned, its bytes followed by one '\n' and its tag
\* kept, and None once every handled message has been returned.
C8_InverseEncoding ==
    [][lastOp' = "poll_front_output" =>
          IF Len(frontOut) = Len(backLog)
          THEN lastRes' = None
          ELSE lastRes' = Some(EncodedLine(backLog[Len(frontOut) + 1]))]_vars

\* C8 witness: an Ok and an Err message were returned, then None.
C8_Witness ==
    /\ ReturnedNone("poll_front_output")
    /\ Len(frontOut) = 2
    /\ frontOut[1].ok /\ ~frontOut[2].ok

\* C9 as stated: a composed poll that returns None leaves both sub-pipes as
\* they were.
C9_NonePollChangesNothing ==
    [][(lastOp' \in Polls /\ lastRes' = None /\ ~panicked') => (a' = a /\ b' = b)]_vars

\* C9, amended: a poll of an example pipe that returns None leaves the pipe
\* as it was, and so does a composed poll_front_output that returns None; a
\* composed poll_back_output that returns None leaves a's back input and b's
\* back output as they were, and may have moved (only) complete lines that
\* are no integers out of a's front input, leaving their Errs in b's front
\* output.
C9_NonePollFrame ==
    /\ [][/\ (lastOp' = "poll_front_output" /\ lastRes' = None /\ ~panicked')
               => (a' = a /\ b' = b)
          /\ (lastOp' = "poll_back_output" /\ lastRes' = None /\ ~panicked')
               => /\ a'.back_input = a.back_input
                  /\ b'.back_output = b.back_output
                  /\ NumbersOf(CompleteLines(a.front_input)) = <<>>
                  /\ Len(b'.front_output) =
                        Len(b.front_output) + Len(CompleteLines(a.front_input))
                  /\ IsPrefix(b.front_output, b'.front_output)
                  /\ CompleteLines(a'.front_input) = <<>>]_vars
    /\ [](LET ab == BytesToLinesPipe_poll_back_output(a)
              af == BytesToLinesPipe_poll_front_output(a)
              bb == StringsToNumbersPipe_poll_back_output(b)
              bf == StringsToNumbersPipe_poll_front_output(b)
          IN /\ (~ab.panic /\ ab.ret = None) => ab.pipe = a
             /\ af.ret = None => af.pipe = a
             /\ bb.ret = None => bb.pipe = b
             /\ bf.ret = None => bf.pipe = b)

\* C9 witness: a composed poll_back_output returned None having moved a
\* line, and a later composed poll_front_output returned None.
C9_Witness ==
    /\ ReturnedNone("poll_front_output")
    /\ noneB
    /\ frontOut # <<>> /\ ~frontOut[1].ok

\* C10: no call panics.
C10_NoPanic == ~panicked

\* The Err the number codec makes of a line that is no integer.
ErrOf(line) == Err(FormatInvalidNumber(line))

\* The Errs of the lines of a sequence that are no integers, in order.
RECURSIVE ErrsOf(_)
ErrsOf(lines) ==
    IF lines = <<>> THEN <<>>
    ELSE (IF IsNumeric(Head(lines)) THEN <<>> ELSE <<ErrOf(Head(lines))>>)
         \o ErrsOf(Tail(lines))

\* C11: a value the composed poll_back_output returns is an integer taken
\* from the head of b's back output (what b held, then what b made of a's
\* lines), and the call puts nothing into a's back input; a value the
\* composed poll_front_output returns is a's encoding of the head of a's
\* back input (what a held, then what b's front output held), and the call
\* puts nothing into a's front input or b's back output.
C11_NoLeakage ==
    [][(lastOp' \in Polls /\ ~panicked') =>
          IF lastOp' = "poll_back_output"
          THEN /\ lastRes' # None =>
                     lastRes'[1] = Head(b.back_output
                                           \o NumbersOf(CompleteLines(a.front_input)))
               /\ a'.back_input = a.back_input
               /\ frontOut' = frontOut
          ELSE /\ lastRes' # None =>
                     lastRes'[1] = EncodedLine(Head(a.back_input \o b.front_output))
               /\ a'.front_input = a.front_input
               /\ b'.back_output = b.back_output
               /\ backOut' = backOut]_vars

\* C11 witness: poll_back_output returned an integer while b had made an Err
\* of another line, and poll_front_output had already returned a message.
C11_Witness ==
    /\ lastOp = "poll_back_output" /\ lastRes # None
    /\ b.front_output # <<>> /\ ~Head(b.front_output).ok
    /\ frontOut # <<>>

\* The bytes handled by the handle_front_input step being taken.
HandledBytes == SubSeq(frontLog', Len(frontLog) + 1, Len(frontLog'))

\* C12: a composed handle_front_input(m) does to a what a's own
\* handle_front_input(m) does and leaves b as it was; a composed
\* handle_back_input(n) does to b what b's own handle_back_input(n) does and
\* leaves a as it was.
C12_HandlesForward ==
    [][/\ lastOp' = "handle_front_input" =>
             /\ a' = BytesToLinesPipe_handle_front_input(a, HandledBytes)
             /\ b' = b
       /\ lastOp' = "handle_back_input" =>
             /\ b' = StringsToNumbersPipe_handle_back_input(b, backLog'[Len(backLog')])
             /\ a' = a]_vars

\* C12 witness: handle_back_input was called while a held a complete line
\* and b held an earlier message for a; neither was moved.
C12_Witness ==
    /\ lastOp = "handle_back_input"
    /\ CompleteLines(a.front_input) # <<>>
    /\ Len(b.front_output) = 2
    /\ a.back_input = <<>>

\* The bytes of a byte stream after its last separator.
Remainder(bytes) ==
    IF \A i \in 1..Len(bytes) : bytes[i] # NL THEN bytes
    ELSE LET i == CHOOSE k \in 1..Len(bytes) :
                     bytes[k] = NL /\ \A j \in (k + 1)..Len(bytes) : bytes[j] # NL
         IN SubSeq(bytes, i + 1, Len(bytes))

\* b after its handle_front_input was called with each line, in order.
RECURSIVE FeedLines(_, _)
FeedLines(p, lines) ==
    IF lines = <<>> THEN p
    ELSE FeedLines(StringsToNumbersPipe_handle_front_input(p, Head(lines)), Tail(lines))

\* a after its handle_back_input was called with each message, in order.
RECURSIVE FeedMessages(_, _)
FeedMessages(p, messages) ==
    IF messages = <<>> THEN p
    ELSE FeedMessages(BytesToLinesPipe_handle_back_input(p, Head(messages)), Tail(messages))

\* C13: when the composed poll_back_output returns, a holds no complete
\* line any more (only the bytes after the last separator), b has been fed
\* every complete line a held at the call, in order, and the value returned
\* and the state b is left in are those of b's own poll_back_output after
\* that; when the composed poll_front_output returns, b's front output is
\* empty, a has been fed every message b's front output held at the call, in
\* order, and the value returned and the state a is left in are those of
\* a's own poll_front_output after that.
C13_DrainThenPoll ==
    [][(lastOp' \in Polls /\ ~panicked') =>
          IF lastOp' = "poll_back_output"
          THEN LET fed == FeedLines(b, CompleteLines(a.front_input))
                   r == StringsToNumbersPipe_poll_back_output(fed)
               IN /\ a' = [a EXCEPT !.front_input = Remainder(a.front_input)]
                  /\ CompleteLines(a'.front_input) = <<>>
                  /\ lastRes' = r.ret
                  /\ b' = r.pipe
          ELSE LET fed == FeedMessages(a, b.front_output)
                   r == BytesToLinesPipe_poll_front_output(fed)
               IN /\ b' = [b EXCEPT !.front_output = <<>>]
                  /\ lastRes' = r.ret
                  /\ a' = r.pipe]_vars

\* C13 witness: the only poll_back_output that returned a number so far left
\* another number in b, so it fed b two lines; and a poll_front_output has
\* returned a message while a second one stayed in a.
C13_Witness ==
    /\ lastOp = "poll_front_output" /\ lastRes # None
    /\ a.back_input # <<>>
    /\ Len(backOut) = 1
    /\ b.back_output # <<>>

\* C14: from every reachable state a call of the composed poll_back_output
\* runs its loop body once for each complete line a holds and then leaves
\* the loop, and a call of the composed poll_front_output runs its loop body
\* once for each message in b's front output and then leaves the loop.
C14_DrainTerminates ==
    ~panicked =>
        LET da == Glue_drain_a_to_b(Glue_new(a, b))
            db == Glue_drain_b_to_a(Glue_new(a, b))
        IN /\ ~da.panic
           /\ da.iters = Len(CompleteLines(a.front_input))
           /\ ~db.panic
           /\ db.iters = Len(b.front_output)

\* The Err messages of a sequence of Results, in order.
RECURSIVE ErrOnly(_)
ErrOnly(rs) ==
    IF rs = <<>> THEN <<>>
    ELSE (IF Head(rs).ok THEN <<>> ELSE <<Head(rs)>>) \o ErrOnly(Tail(rs))

\* The complete lines handled at the front that a holds no longer.
TakenLines ==
    LET all == CompleteLines(frontLog) IN
    SubSeq(all, 1, Len(all) - Len(CompleteLines(a.front_input)))

\* C15: of the complete lines the composed pipe has taken out of a's
\* buffer, only those that are integers have produced a value at the back
\* (returned by poll_back_output or queued for it), and each one that is no
\* integer has produced one Err at the front: returned by poll_front_output
\* or queued for it, in the order of the lines.
C15_ErrorRouting ==
    /\ backOut \o b.back_output = NumbersOf(TakenLines)
    /\ LET queued == ErrOnly(a.back_input \o b.front_output)
           expected == ErrsOf(TakenLines)
       IN ErrOnly(frontOut) \o [i \in 1..Len(queued) |-> EncodedLine(queued[i])]
             = [i \in 1..Len(expected) |-> EncodedLine(expected[i])]

\* C18: every complete line handled at the front is in exactly one place:
\* still a line in a's buffer, an integer queued in b's back output or
\* returned by poll_back_output, or an Err queued in b's front output, queued
\* in a's back input or returned by poll_front_output.
C18_Conservation ==
    Len(CompleteLines(frontLog)) =
        Len(CompleteLines(a.front_input))
            + Len(b.back_output) + Len(backOut)
            + Len(ErrOnly(b.front_output)) + Len(ErrOnly(a.back_input))
            + Len(ErrOnly(frontOut))

\* What main writes for a line of text: the double of the integer in
\* decimal, or the Err of the number codec, each followed by '\n'.
Response(line) ==
    IF IsNumeric(line) THEN EncodedOk(2 * ParseI32(line)[1])
    ELSE EncodedLine(ErrOf(line))

\* C16: the messages main has written, Ok and Err together, are in the
\* order of the complete lines it has read: they are a prefix of the
\* responses to these lines.
C16_ResponsesInOrder ==
    LET lines == CompleteLines(frontLog) IN
    IsPrefix(frontOut, [i \in 1..Len(lines) |-> Response(lines[i])])

\* C17: when main is about to read, poll_back_output and then
\* poll_front_output have returned None since the last handle_* call, both
\* polls would return None again, a holds no complete line and no queued
\* back input, b's queues are empty, and one response has been written for
\* each complete line read so far.
C17_ReadsOnlyWhenQuiescent ==
    AtRead =>
        /\ noneBF
        /\ NothingReady
        /\ CompleteLines(a.front_input) = <<>>
        /\ a.back_input = <<>>
        /\ b.back_output = <<>>
        /\ b.front_output = <<>>
        /\ Len(frontOut) = Len(CompleteLines(frontLog))

\* C17 witness: main is about to read again after it has written an Ok and
\* an Err response, with the beginning of a further line in a's buffer.
C17_Witness ==
    /\ AtRead
    /\ OkOnly(frontOut) # <<>> /\ ErrOnly(frontOut) # <<>>
    /\ a.front_input # <<>>

\* The lines of a sequence that precede its first line of invalid UTF-8.
RECURSIVE ValidPrefix(_)
ValidPrefix(lines) ==
    IF lines = <<>> \/ ~Utf8Valid(Head(lines)) THEN <<>>
    ELSE <<Head(lines)>> \o ValidPrefix(Tail(lines))

\* C19: the lines poll_back_output of the line codec has returned are a
\* function of the concatenation of the bytes handled so far, however they
\* were split into calls and wherever the polls were made: they are the
\* first complete lines of the concatenation, those not yet returned are the
\* complete lines of the buffer, and once a poll has returned None, all
\* complete lines of the concatenation have been returned. (A poll that
\* panics does so at the first line of the concatenation that is invalid
\* UTF-8, after all lines before it have been returned.)
C19_ChunkingIndependence ==
    LET all == CompleteLines(frontLog) IN
    /\ IsPrefix(backOut, ValidPrefix(all))
    /\ ~panicked => /\ backOut \o CompleteLines(a.front_input) = all
                    /\ a.front_input =
                          SubSeq(frontLog, Len(frontLog) - Len(a.front_input) + 1,
                                 Len(frontLog))
    /\ panicked => (backOut = ValidPrefix(all) /\ Len(backOut) < Len(all))
    /\ ReturnedNone("poll_back_output") =>
          (backOut = all /\ a.front_input = Remainder(frontLog))

\* C19 witness: a line whose bytes arrived in two calls was returned, then
\* None, with the beginning of the next line left in the buffer.
C19_Witness ==
    /\ ReturnedNone("poll_back_output")
    /\ Len(backOut) = 1 /\ Len(backOut[1]) = 2
    /\ a.front_input # <<>>

====
